---- MODULE Spec2Model ----
(***************************************************************************)
(* Connection/room hub of tiktok_apirest: the application handlers of      *)
(* src/src/index.ts running on top of the websocket adapter (Registry,     *)
(* Room Index, Socket handle).  The adapter module itself                  *)
(* (./websocket-adapter) is modelled from its specification; the handlers, *)
(* the transport callbacks and the payload formats are those of index.ts.  *)
(* JavaScript runs every synchronous handler to completion, so each        *)
(* handler is one atomic action.                                           *)
(***************************************************************************)
EXTENDS Integers, Sequences, FiniteSets, TLC

\* ---------------------------------------------------------------- bounds
MaxSockets == 2
MaxOps == 2
MaxLiveOps == 3

Ids == 1..MaxSockets
\* identifiers a private message may name: 0 never names a connection
Targets == 0..MaxSockets

\* ------------------------------------------------------ program constants
DefaultRoom == "general"
RoomNames == {"general", "r1"}
Data == {"m1", "m2"}
\* external usernames asked for with `live:tiktok`
Users == {"u1", "u2"}
\* TiktokEventsArray: the external occurrence types
WebcastEvents == {"chat", "gift"}
\* names a handler subscribes to on the shared emitter
EmitterEvents == {"tiktok:connected", "tiktok:event", "tiktok:disconnected"}
\* external connections ever created: at most one per request
ConnIds == 1..MaxLiveOps

VARIABLES
    nextId,       \* next Connection Identifier the Registry hands out
    transport,    \* per id: "none" | "open" | "closed" (the client's side)
    clients,      \* io.clients: keys of the Registry
    rooms,        \* Room Index: room name -> set of member ids
    socketRooms,  \* per socket: its own set of joined room names
    outbox,       \* per id: frames written to its transport, in order
    disconnects,  \* per id: how many times its `disconnect` handlers ran
    requested,    \* per id: the rooms it asked for with `join-room`, in order (history)
    sent,         \* per id: payloads of the `message` frames it sent, in order (history)
    nops,         \* events handled so far, lifecycle aside (at most MaxOps)
    last,         \* the operation that produced this state, with its result
    liveMap,      \* CurrentLiveMap: username -> stored connection (0: no entry)
    conns,        \* per external connection: username, requesting socket, state
    nextConn,     \* next external connection to be constructed
    listeners,    \* shared emitter: per event name, the subscriptions in order
    liveAsked     \* per id: usernames it sent `live:tiktok` for (history)

liveVars == <<liveMap, conns, nextConn, listeners, liveAsked>>

vars == <<nextId, transport, clients, rooms, socketRooms, outbox,
          disconnects, requested, sent, nops, last, liveVars>>

\* ------------------------------------------------------- envelope / codec
Envelope(event, data) == [event |-> event, data |-> data]

\* `${socket.id} says: ${data}`
SaysText(s, data) == <<ToString(s), " says: ", data>>
\* `You joined room: ${room}`
JoinedText(room) == <<"You joined room: ", room>>
\* `${socket.id} joined the room`
UserJoinedText(s) == <<ToString(s), " joined the room">>
\* `User ${targetSocketId} not found or disconnected.`
NotFoundText(t) == <<"User ", t, " not found or disconnected.">>

NoPayload == [kind |-> "none", hasTarget |-> FALSE, target |-> 0]
\* first positional argument of a `private-message` frame: undefined or null
\* ("nullish"), a string or number ("prim"), or an object with or without a
\* targetSocketId field
PrivatePayloads ==
    {[kind |-> "nullish", hasTarget |-> FALSE, target |-> 0],
     [kind |-> "prim", hasTarget |-> FALSE, target |-> 0],
     [kind |-> "obj", hasTarget |-> FALSE, target |-> 0]}
    \cup {[kind |-> "obj", hasTarget |-> TRUE, target |-> t] : t \in Targets}

NoStats == [connectedClients |-> 0, rooms |-> <<>>]
Op(op, s, arg, pm, res) ==
    [op |-> op, sock |-> s, arg |-> arg, pm |-> pm, res |-> res, stats |-> NoStats]

\* ------------------------------------------------ adapter: Room Manager
\* The hub state h = [rooms, socketRooms]: the Room Index and each socket's
\* own room-set, which join and leave update together.

\* a leave that updates the Room Index and forgets the socket's own set
LeaveIndexOnly(h, s, r) ==
    [rooms |-> [h.rooms EXCEPT ![r] = @ \ {s}], socketRooms |-> h.socketRooms]

\* socket.join(r): no-op if already a member
Join(h, s, r) ==
    [rooms |-> [h.rooms EXCEPT ![r] = @ \cup {s}],
     socketRooms |-> [h.socketRooms EXCEPT ![s] = @ \cup {r}]]

\* socket.leave(r): no-op if not a member
Leave(h, s, r) ==
    [rooms |-> [h.rooms EXCEPT ![r] = @ \ {s}],
     socketRooms |-> [h.socketRooms EXCEPT ![s] = @ \ {r}]]

Hub == [rooms |-> rooms, socketRooms |-> socketRooms]

\* an emit that writes whether or not the connection is still there
EmitAlways(ob, s, frame) == [ob EXCEPT ![s] = Append(@, frame)]

\* socket.emit: write one frame to this socket's own transport; dropped
\* when the connection is gone
Emit(ob, s, frame) ==
    IF transport[s] = "open" THEN [ob EXCEPT ![s] = Append(@, frame)] ELSE ob

\* Room Manager broadcast: every current member of r except excl
RoomBroadcast(ob, rm, r, frame, excl) ==
    [t \in Ids |-> IF t \in rm[r] \ excl /\ transport[t] = "open"
                   THEN Append(ob[t], frame) ELSE ob[t]]

\* socket.to(r).emit: room broadcast that excludes the sender
ToRoomEmit(ob, rm, s, r, frame) == RoomBroadcast(ob, rm, r, frame, {s})

\* an external connection not constructed yet
NoConn == [user |-> "", sock |-> 0, state |-> "none"]

Init ==
    /\ nextId = 1
    /\ transport = [s \in Ids |-> "none"]
    /\ clients = {}
    /\ rooms = [r \in RoomNames |-> {}]
    /\ socketRooms = [s \in Ids |-> {}]
    /\ outbox = [s \in Ids |-> <<>>]
    /\ disconnects = [s \in Ids |-> 0]
    /\ requested = [s \in Ids |-> <<>>]
    /\ sent = [s \in Ids |-> <<>>]
    /\ nops = 0
    /\ last = Op("init", 0, "", NoPayload, "ok")
    /\ liveMap = [u \in Users |-> 0]
    /\ conns = [c \in ConnIds |-> NoConn]
    /\ nextConn = 1
    /\ listeners = [e \in EmitterEvents |-> <<>>]
    /\ liveAsked = [s \in Ids |-> {}]

\* ------------------------------------------------------------ lifecycle
\* io.on('connection'): socket.join('general'), then the handlers are installed
ConnectionHook(s) ==
    LET h1 == Join(Hub, s, DefaultRoom)
    IN  /\ rooms' = h1.rooms
        /\ socketRooms' = h1.socketRooms

\* onOpen -> io.handleOpen: register under a fresh id, fire `connection`
OnOpen ==
    /\ nextId <= MaxSockets
    /\ LET s == nextId IN
        /\ nextId' = nextId + 1
        /\ transport' = [transport EXCEPT ![s] = "open"]
        /\ clients' = clients \cup {s}
        /\ ConnectionHook(s)
        /\ last' = Op("open", s, "", NoPayload, "ok")
    /\ UNCHANGED <<outbox, disconnects, requested, sent, nops>>
    /\ UNCHANGED liveVars

\* every event except open and first close draws on the MaxOps budget
Served == /\ nops < MaxOps
          /\ nops' = nops + 1

\* adapter handleClose: first call for a registered socket fires its
\* `disconnect` handlers once, then removes the id from every room and from
\* the Registry; any later call finds the id absent and does nothing
HandleClose(s) ==
    IF s \in clients
    THEN /\ disconnects' = [disconnects EXCEPT ![s] = @ + 1]
         /\ rooms' = [r \in RoomNames |-> rooms[r] \ {s}]
         /\ socketRooms' = [socketRooms EXCEPT ![s] = {}]
         /\ clients' = clients \ {s}
    ELSE UNCHANGED <<disconnects, rooms, socketRooms, clients>>

\* a close callback that only deletes the Registry entry
OnCloseDeleteOnly(s) ==
    /\ clients' = clients \ {s}
    /\ UNCHANGED <<disconnects, rooms, socketRooms>>

\* onClose: io.handleClose(ws.raw, event.code, event.reason)
OnClose(s) == HandleClose(s)

\* onError: console.error only, the adapter is not told
OnError(s) == UNCHANGED <<disconnects, rooms, socketRooms, clients>>

\* the transport closes (remote close or explicit close) and onClose runs
CloseEvent(s) ==
    /\ transport[s] = "open"
    /\ transport' = [transport EXCEPT ![s] = "closed"]
    /\ OnClose(s)
    /\ last' = Op("close", s, "", NoPayload, "ok")
    /\ UNCHANGED <<nextId, outbox, requested, sent, nops>>
    /\ UNCHANGED liveVars

\* onClose delivered again for a transport that already closed
RepeatClose(s) ==
    /\ transport[s] = "closed"
    /\ Served
    /\ OnClose(s)
    /\ last' = Op("reclose", s, "", NoPayload, "ok")
    /\ UNCHANGED <<nextId, transport, outbox, requested, sent>>
    /\ UNCHANGED liveVars

\* the transport reports an error and onError runs
ErrorEvent(s) ==
    /\ transport[s] \in {"open", "closed"}
    /\ Served
    /\ OnError(s)
    /\ last' = Op("error", s, "", NoPayload, "ok")
    /\ UNCHANGED <<nextId, transport, outbox, requested, sent>>
    /\ UNCHANGED liveVars

\* ------------------------------------------------- application handlers
\* a `message` handler that broadcasts through the hub, excluding nobody
MessageHandlerNoExclude(s, data) ==
    LET ob1 == Emit(outbox, s, Envelope("echo", <<data>>))
        ob2 == RoomBroadcast(ob1, rooms, DefaultRoom,
                             Envelope("broadcast", SaysText(s, data)), {})
    IN  /\ outbox' = ob2
        /\ UNCHANGED <<rooms, socketRooms>>

\* a `message` handler that sends the echo to the room instead of the socket
MessageHandlerEchoToRoom(s, data) ==
    LET ob1 == RoomBroadcast(outbox, rooms, DefaultRoom,
                             Envelope("echo", <<data>>), {})
        ob2 == ToRoomEmit(ob1, rooms, s, DefaultRoom,
                          Envelope("broadcast", SaysText(s, data)))
    IN  /\ outbox' = ob2
        /\ UNCHANGED <<rooms, socketRooms>>

\* socket.on('message'): echo to the sender, broadcast to the others in general
MessageHandler(s, data) ==
    LET ob1 == Emit(outbox, s, Envelope("echo", <<data>>))
        ob2 == ToRoomEmit(ob1, rooms, s, DefaultRoom,
                          Envelope("broadcast", SaysText(s, data)))
    IN  /\ outbox' = ob2
        /\ UNCHANGED <<rooms, socketRooms>>

\* a join-room that leaves general and then forgets to join
JoinRoomHandlerNoJoin(s, room) ==
    LET h1 == Leave(Hub, s, DefaultRoom)
        ob1 == Emit(outbox, s, Envelope("joined", JoinedText(room)))
    IN  /\ rooms' = h1.rooms
        /\ socketRooms' = h1.socketRooms
        /\ outbox' = ob1

\* a `join-room` handler that forgets socket.leave('general')
JoinRoomHandlerNoLeave(s, room) ==
    LET h2 == Join(Hub, s, room)
        ob1 == Emit(outbox, s, Envelope("joined", JoinedText(room)))
        ob2 == ToRoomEmit(ob1, h2.rooms, s, room,
                          Envelope("user-joined", UserJoinedText(s)))
    IN  /\ rooms' = h2.rooms
        /\ socketRooms' = h2.socketRooms
        /\ outbox' = ob2

\* socket.on('join-room'): leave general, join room, tell the socket, tell the room
JoinRoomHandler(s, room) ==
    LET h1 == Leave(Hub, s, DefaultRoom)
        h2 == Join(h1, s, room)
        ob1 == Emit(outbox, s, Envelope("joined", JoinedText(room)))
        ob2 == ToRoomEmit(ob1, h2.rooms, s, room,
                          Envelope("user-joined", UserJoinedText(s)))
    IN  /\ rooms' = h2.rooms
        /\ socketRooms' = h2.socketRooms
        /\ outbox' = ob2

\* ({targetSocketId, message}) => ...: destructuring undefined or null throws
PrivateThrows(p) == p.kind = "nullish"
\* the value bound to targetSocketId, as the template string prints it
TargetText(p) ==
    IF p.kind = "obj" /\ p.hasTarget THEN ToString(p.target) ELSE "undefined"
\* io.clients.get(targetSocketId) finds a socket
TargetFound(p) == p.kind = "obj" /\ p.hasTarget /\ p.target \in clients
\* the value bound to message: the text of an object payload, else undefined
MessageText(p) == IF p.kind = "obj" THEN "text" ELSE "undefined"

\* socket.on('private-message')
PrivateMessageHandler(s, p) ==
    /\ outbox' =
         IF PrivateThrows(p) THEN outbox
         ELSE IF TargetFound(p)
              THEN Emit(outbox, p.target,
                        Envelope("private-message", <<ToString(s), MessageText(p)>>))
              ELSE Emit(outbox, s, Envelope("error", NotFoundText(TargetText(p))))
    /\ UNCHANGED <<rooms, socketRooms>>

\* ----------------------------------- onMessage -> io.handleMessage(ws, text)
OnMessageMessage(s, data) ==
    /\ s \in clients /\ Served
    /\ MessageHandler(s, data)
    /\ sent' = [sent EXCEPT ![s] = Append(@, data)]
    /\ last' = Op("message", s, data, NoPayload, "ok")
    /\ UNCHANGED <<nextId, transport, clients, disconnects, requested>>
    /\ UNCHANGED liveVars

OnMessageJoinRoom(s, room) ==
    /\ s \in clients /\ Served
    /\ JoinRoomHandler(s, room)
    /\ requested' = [requested EXCEPT ![s] = Append(@, room)]
    /\ last' = Op("join-room", s, room, NoPayload, "ok")
    /\ UNCHANGED <<nextId, transport, clients, disconnects, sent>>
    /\ UNCHANGED liveVars

OnMessagePrivate(s, p) ==
    /\ s \in clients /\ Served
    /\ PrivateMessageHandler(s, p)
    /\ last' = Op("private-message", s, "", p,
                  IF PrivateThrows(p) THEN "threw" ELSE "ok")
    /\ UNCHANGED <<nextId, transport, clients, disconnects, requested, sent>>
    /\ UNCHANGED liveVars

\* frames handleMessage cannot dispatch: text that is not valid structured
\* data, an object without an `event` field, an event no handler is
\* registered for
DroppedKinds == {"malformed", "noevent", "unknown"}

\* a handleMessage that closes the connection on a frame it cannot dispatch
DropFrameCloses(s) == HandleClose(s)

\* handleMessage on such a frame: logged and dropped, nothing else happens
DropFrame(s) == UNCHANGED <<disconnects, rooms, socketRooms, clients>>

OnMessageDropped(s, kind) ==
    /\ s \in clients /\ Served
    /\ DropFrame(s)
    /\ last' = Op("dropped", s, kind, NoPayload, "ok")
    /\ UNCHANGED <<nextId, transport, outbox, requested, sent>>
    /\ UNCHANGED liveVars

\* -------------------------------------------------- hub: stats, broadcastAll
RECURSIVE SetToSeq(_)
SetToSeq(S) ==
    IF S = {} THEN <<>>
    ELSE LET x == CHOOSE y \in S : TRUE IN <<x>> \o SetToSeq(S \ {x})

\* stats(): Registry size and the names of the rooms that have a member
Stats ==
    [connectedClients |-> Cardinality(clients),
     rooms |-> SetToSeq({r \in RoomNames : rooms[r] # {}})]

GetStats ==
    /\ Served
    /\ last' = [Op("stats", 0, "", NoPayload, "ok") EXCEPT !.stats = Stats]
    /\ UNCHANGED <<nextId, transport, clients, rooms, socketRooms, outbox,
                   disconnects, requested, sent>>
    /\ UNCHANGED liveVars

\* broadcastAll(message): `broadcast` to the default room, nobody excluded
BroadcastAll(m) ==
    /\ Served
    /\ outbox' = RoomBroadcast(outbox, rooms, DefaultRoom,
                               Envelope("broadcast", <<m>>), {})
    /\ last' = Op("broadcastAll", 0, m, NoPayload, "success")
    /\ UNCHANGED <<nextId, transport, clients, rooms, socketRooms,
                   disconnects, requested, sent>>
    /\ UNCHANGED liveVars

\* ------------------------------------ live bridge: emitter and CurrentLiveMap
\* bridge requests and external occurrences draw on the MaxLiveOps budget
ServedLive == /\ nops < MaxLiveOps
              /\ nops' = nops + 1

ConnectedFrame(u) == Envelope("tiktok:connected", <<u>>)
EventFrame(u, ev) == Envelope("tiktok:event", <<u, ev>>)
DisconnectedFrame(u) == Envelope("tiktok:disconnected", <<u, "DISCONNECTED">>)

\* a bridge listener that forwards whatever the emitter carries
BridgeListenerNoFilter(ob, sub, u, frame) == Emit(ob, sub.sock, frame)

\* (data) => { if (data.tiktokUsername === tiktokUsername) socket.emit(name, data) }
BridgeListener(ob, sub, u, frame) ==
    IF sub.user = u THEN Emit(ob, sub.sock, frame) ELSE ob

\* emitter.emit(name, data): every subscription to name runs, in the order
\* it was added
RECURSIVE Deliver(_, _, _, _)
Deliver(ob, subs, u, frame) ==
    IF subs = <<>> THEN ob
    ELSE Deliver(BridgeListener(ob, Head(subs), u, frame), Tail(subs), u, frame)

EmitterEmit(ob, name, u, frame) == Deliver(ob, listeners[name], u, frame)

\* the three emitter.on(...) calls of the `live:tiktok` handler
Subscribe(ls, s, u) ==
    [e \in EmitterEvents |-> Append(ls[e], [sock |-> s, user |-> u])]

\* socket.on('live:tiktok') up to its first suspension.  With an entry for u
\* in CurrentLiveMap createLiveIfNotExist returns at once and the handler
\* subscribes; without one createLive constructs a connection and awaits
\* connect(), and the rest of the handler runs when that settles.
LiveRequest(s, u) ==
    /\ s \in clients /\ ServedLive
    /\ liveAsked' = [liveAsked EXCEPT ![s] = @ \cup {u}]
    /\ IF liveMap[u] # 0
       THEN /\ listeners' = Subscribe(listeners, s, u)
            /\ last' = Op("live:tiktok", s, u, NoPayload, "ok")
            /\ UNCHANGED <<conns, nextConn>>
       ELSE /\ conns' = [conns EXCEPT ![nextConn] =
                            [user |-> u, sock |-> s, state |-> "connecting"]]
            /\ nextConn' = nextConn + 1
            /\ last' = Op("live:tiktok", s, u, NoPayload, "pending")
            /\ UNCHANGED listeners
    /\ UNCHANGED <<nextId, transport, clients, rooms, socketRooms, outbox,
                   disconnects, requested, sent, liveMap>>

\* connect() resolves: createLive emits tiktok:connected and wires the
\* connection's events, createLiveIfNotExist stores the connection, the
\* handler subscribes
ConnectOk(c) ==
    /\ conns[c].state = "connecting"
    /\ outbox' = EmitterEmit(outbox, "tiktok:connected", conns[c].user,
                             ConnectedFrame(conns[c].user))
    /\ conns' = [conns EXCEPT ![c].state = "connected"]
    /\ liveMap' = [liveMap EXCEPT ![conns[c].user] = c]
    /\ listeners' = Subscribe(listeners, conns[c].sock, conns[c].user)
    /\ last' = Op("connect-ok", conns[c].sock, conns[c].user, NoPayload, "ok")
    /\ UNCHANGED <<nextId, transport, clients, rooms, socketRooms,
                   disconnects, requested, sent, nops, nextConn, liveAsked>>

\* connect() rejects: createLive emits tiktok:disconnected and rethrows, so
\* createLiveIfNotExist and the handler reject; nothing is stored or subscribed
ConnectFail(c) ==
    /\ conns[c].state = "connecting"
    /\ outbox' = EmitterEmit(outbox, "tiktok:disconnected", conns[c].user,
                             DisconnectedFrame(conns[c].user))
    /\ conns' = [conns EXCEPT ![c].state = "failed"]
    /\ last' = Op("connect-fail", conns[c].sock, conns[c].user, NoPayload, "rejected")
    /\ UNCHANGED <<nextId, transport, clients, rooms, socketRooms,
                   disconnects, requested, sent, nops, nextConn, liveAsked,
                   liveMap, listeners>>

\* one external occurrence on a connected connection: the callback wired by
\* createLive emits tiktok:event on the shared emitter
ExternalEvent(c, ev) ==
    /\ conns[c].state = "connected"
    /\ ServedLive
    /\ outbox' = EmitterEmit(outbox, "tiktok:event", conns[c].user,
                             EventFrame(conns[c].user, ev))
    /\ last' = Op("tiktok:event", 0, conns[c].user, NoPayload, "ok")
    /\ UNCHANGED <<nextId, transport, clients, rooms, socketRooms,
                   disconnects, requested, sent, nextConn, liveAsked,
                   liveMap, listeners, conns>>

\* the payload disconnectLive emits: {tiktokUsername, roomId}
LeftFrame(u) == Envelope("tiktok:disconnected", <<u, "roomId">>)

\* disconnectLive(u): with an entry for u, disconnect that connection,
\* delete the entry and emit tiktok:disconnected; without one, nothing.
\* connection.off is handed a fresh closure and so unhooks nothing.
DisconnectLive(u) ==
    /\ ServedLive
    /\ IF liveMap[u] # 0
       THEN /\ conns' = [conns EXCEPT ![liveMap[u]].state = "disconnected"]
            /\ liveMap' = [liveMap EXCEPT ![u] = 0]
            /\ outbox' = EmitterEmit(outbox, "tiktok:disconnected", u, LeftFrame(u))
            /\ last' = Op("disconnectLive", 0, u, NoPayload, "ok")
       ELSE /\ last' = Op("disconnectLive", 0, u, NoPayload, "noop")
            /\ UNCHANGED <<conns, liveMap, outbox>>
    /\ UNCHANGED <<nextId, transport, clients, rooms, socketRooms,
                   disconnects, requested, sent, nextConn, liveAsked, listeners>>

Next ==
    \/ OnOpen
    \/ \E s \in Ids : CloseEvent(s)
    \/ \E s \in Ids : RepeatClose(s)
    \/ \E s \in Ids : ErrorEvent(s)
    \/ \E s \in Ids, d \in Data : OnMessageMessage(s, d)
    \/ \E s \in Ids, r \in RoomNames : OnMessageJoinRoom(s, r)
    \/ \E s \in Ids, p \in PrivatePayloads : OnMessagePrivate(s, p)
    \/ \E s \in Ids, k \in DroppedKinds : OnMessageDropped(s, k)
    \/ GetStats
    \/ \E m \in Data : BroadcastAll(m)

Spec == Init /\ [][Next]_vars

\* the hub with the live bridge: connections open and close, send
\* `live:tiktok`, `message` and `private-message`, external connects settle
\* and external occurrences arrive
NextLive ==
    \/ OnOpen
    \/ \E s \in Ids : CloseEvent(s)
    \/ \E s \in Ids, u \in Users : LiveRequest(s, u)
    \/ \E c \in ConnIds : ConnectOk(c)
    \/ \E c \in ConnIds : ConnectFail(c)
    \/ \E c \in ConnIds, ev \in WebcastEvents : ExternalEvent(c, ev)
    \/ \E s \in Ids, d \in Data : OnMessageMessage(s, d)
    \/ \E s \in Ids, p \in PrivatePayloads : OnMessagePrivate(s, p)

SpecLive == Init /\ [][NextLive]_vars

\* the bridge module with all its exports in use: TiktokFunctions also
\* exports disconnectLive, which index.ts never calls; here some caller does
NextBridge ==
    \/ OnOpen
    \/ \E s \in Ids : CloseEvent(s)
    \/ \E s \in Ids, u \in Users : LiveRequest(s, u)
    \/ \E c \in ConnIds : ConnectOk(c)
    \/ \E c \in ConnIds : ConnectFail(c)
    \/ \E c \in ConnIds, ev \in WebcastEvents : ExternalEvent(c, ev)
    \/ \E u \in Users : DisconnectLive(u)

SpecBridge == Init /\ [][NextBridge]_vars

\* ------------------------------------------------------------ properties
\* frames written to t's transport by the step
NewFrames(t) == SubSeq(outbox'[t], Len(outbox[t]) + 1, Len(outbox'[t]))
Count(seq, f) == Cardinality({i \in DOMAIN seq : seq[i] = f})
Last(seq) == seq[Len(seq)]

DirectOnly(s, f) ==
    \A t \in Ids : Count(NewFrames(t), f) = IF t = s THEN 1 ELSE 0

\* C2: a direct emit on a socket writes exactly one frame with that payload
\* to that socket's transport and none to any other transport: the `echo` of
\* a `message`, the `joined` of a `join-room`, the `private-message` handed
\* to a found target and the `error` returned for a missing one.
C2_DirectEmitOnlyOwnTransport ==
    [][ /\ last'.op = "message" =>
             DirectOnly(last'.sock, Envelope("echo", <<last'.arg>>))
        /\ last'.op = "join-room" =>
             DirectOnly(last'.sock, Envelope("joined", JoinedText(last'.arg)))
        /\ (last'.op = "private-message" /\ last'.res = "ok" /\ TargetFound(last'.pm)) =>
             DirectOnly(last'.pm.target,
                        Envelope("private-message",
                                 <<ToString(last'.sock), MessageText(last'.pm)>>))
        /\ (last'.op = "private-message" /\ last'.res = "ok" /\ ~TargetFound(last'.pm)) =>
             DirectOnly(last'.sock, Envelope("error", NotFoundText(TargetText(last'.pm))))
      ]_vars

\* A got its echo while another socket was connected in the same room
C2_Witness ==
    /\ last.op = "message"
    /\ Last(outbox[last.sock]) = Envelope("echo", <<last.arg>>)
    /\ \E b \in rooms[DefaultRoom] : b # last.sock

C3_CloseOnce ==
    \A s \in Ids :
        /\ disconnects[s] <= 1
        /\ transport[s] = "closed" <=> disconnects[s] = 1
        /\ transport[s] = "closed" => s \notin clients
        /\ transport[s] = "open" => s \in clients

\* a repeated onClose and a transport error change nothing in the hub
C3_LaterTriggersNoOp ==
    last'.op \in {"reclose", "error"} =>
        /\ clients' = clients
        /\ rooms' = rooms
        /\ socketRooms' = socketRooms
        /\ disconnects' = disconnects

C4_NoDanglingMembership ==
    \A r \in RoomNames : rooms[r] \subseteq clients

\* a socket that had moved to r1 disconnected while another stayed connected
C4_Witness ==
    \E s \in Ids :
        /\ transport[s] = "closed"
        /\ requested[s] = <<"r1">>
        /\ clients # {}

\* C5: for every registered socket S and room R, R is in S's own room-set
\* iff S is in the member set of R in the Room Index.
C5_RoomSetsAgree ==
    \A s \in clients : \A r \in RoomNames :
        r \in socketRooms[s] <=> s \in rooms[r]

\* a registered socket that left general for r1
C5_Witness ==
    \E s \in clients :
        /\ last.op = "join-room" /\ last.sock = s /\ last.arg = "r1"
        /\ socketRooms[s] = {"r1"}

Range(seq) == {seq[i] : i \in DOMAIN seq}
\* rooms a connected socket must be in, from what it asked for: general
\* until its first `join-room`; afterwards every other room it requested,
\* and general if its most recent request was for general
Expected(s) ==
    IF requested[s] = <<>> THEN {DefaultRoom}
    ELSE (Range(requested[s]) \ {DefaultRoom})
             \cup (IF Last(requested[s]) = DefaultRoom THEN {DefaultRoom} ELSE {})
Connected == {s \in Ids : transport[s] = "open"}
Listed(st) == {st.rooms[i] : i \in DOMAIN st.rooms}

\* C6: stats() returns connectedClients = the number of sockets in the
\* Registry (N registered minus those disconnected) and rooms = exactly the
\* room names that have at least one member, each once; a room whose last
\* member moved away or disconnected is not listed.
C6_StatsSnapshot ==
    last.op = "stats" =>
        /\ last.stats.connectedClients = Cardinality(clients)
        /\ last.stats.connectedClients
               = (nextId - 1) - Cardinality({s \in Ids : transport[s] = "closed"})
        /\ Listed(last.stats) = {r \in RoomNames : rooms[r] # {}}
        /\ Listed(last.stats) = UNION {Expected(s) : s \in Connected}
        /\ Len(last.stats.rooms) = Cardinality(Listed(last.stats))

\* stats taken after the only member of general moved to r1
C6_Witness ==
    /\ last.op = "stats"
    /\ last.stats.connectedClients >= 1
    /\ \E s \in clients : requested[s] = <<"r1">>
    /\ last.stats.rooms = <<"r1">>

\* C7 (as stated): a `private-message` whose target is not a key of the
\* Registry (never existed, disconnected, or missing from the payload) gives
\* the sender exactly one `error` envelope, gives nobody else anything,
\* throws nothing and leaves the sender Open and registered.
C7_MissingTargetGetsError ==
    [][ (last'.op = "private-message" /\ ~TargetFound(last'.pm)) =>
            /\ last'.res # "threw"
            /\ Len(NewFrames(last'.sock)) = 1
            /\ NewFrames(last'.sock)[1].event = "error"
            /\ \A t \in Ids \ {last'.sock} : NewFrames(t) = <<>>
            /\ last'.sock \in clients'
            /\ transport'[last'.sock] = "open"
      ]_vars

\* the frames a `join-room` step writes: `joined` to the requester,
\* `user-joined` to those who were members of the room before it
JoinRoomFrames ==
    /\ NewFrames(last'.sock) = <<Envelope("joined", JoinedText(last'.arg))>>
    /\ \A t \in Ids \ {last'.sock} :
           NewFrames(t) = IF t \in rooms[last'.arg]
                          THEN <<Envelope("user-joined", UserJoinedText(last'.sock))>>
                          ELSE <<>>

\* C8 (as stated): after `join-room` R from A, A is not a member of general,
\* A is a member of R, A received `joined` naming R, and exactly the sockets
\* that were already members of R, never A, received `user-joined`.
C8_JoinRoomLeavesGeneral ==
    [][ last'.op = "join-room" =>
            /\ last'.sock \notin rooms'[DefaultRoom]
            /\ last'.sock \in rooms'[last'.arg]
            /\ JoinRoomFrames
      ]_vars

\* C8 (amended): after `join-room` R from A, A is a member of R, and A is not
\* a member of general unless R is general itself; A received `joined`
\* naming R, and exactly the sockets that were already members of R, never
\* A, received `user-joined`.
C8_JoinRoomAmended ==
    [][ last'.op = "join-room" =>
            /\ last'.arg # DefaultRoom => last'.sock \notin rooms'[DefaultRoom]
            /\ last'.sock \in rooms'[last'.arg]
            /\ last'.sock \in clients'
            /\ JoinRoomFrames
      ]_vars

\* A joined r1 where another socket already was, which got `user-joined`
C8_Witness ==
    /\ last.op = "join-room" /\ last.arg = "r1"
    /\ last.sock \in rooms["r1"] /\ last.sock \notin rooms[DefaultRoom]
    /\ Last(outbox[last.sock]) = Envelope("joined", JoinedText("r1"))
    /\ \E b \in rooms["r1"] \ {last.sock} :
           Last(outbox[b]) = Envelope("user-joined", UserJoinedText(last.sock))

\* connected sockets whose most recent `join-room` named another room
MovedAway ==
    {s \in Connected : requested[s] # <<>> /\ Last(requested[s]) # DefaultRoom}

\* C9: broadcastAll(message) writes one `broadcast` envelope whose payload is
\* exactly message to every member of the default room, nobody excluded,
\* nothing to any other socket (those that moved away with `join-room`
\* included), and reports success, also when the default room is empty.
C9_BroadcastAll ==
    [][ last'.op = "broadcastAll" =>
            /\ last'.res = "success"
            /\ \A t \in Ids :
                   NewFrames(t) = IF t \in rooms[DefaultRoom]
                                  THEN <<Envelope("broadcast", <<last'.arg>>)>>
                                  ELSE <<>>
            /\ \A t \in MovedAway : NewFrames(t) = <<>>
            /\ \A t \in Connected \ MovedAway :
                   NewFrames(t) = <<Envelope("broadcast", <<last'.arg>>)>>
      ]_vars

\* a broadcast reached a member of general while another socket sat in r1
C9_Witness ==
    /\ last.op = "broadcastAll"
    /\ MovedAway # {}
    /\ \E t \in rooms[DefaultRoom] :
           Last(outbox[t]) = Envelope("broadcast", <<last.arg>>)

RECURSIVE EchoPayloads(_)
EchoPayloads(seq) ==
    IF seq = <<>> THEN <<>>
    ELSE (IF Head(seq).event = "echo" THEN <<Head(seq).data[1]>> ELSE <<>>)
             \o EchoPayloads(Tail(seq))

\* the echoes a socket holds are the payloads it sent, in order
C10_EchoOrder ==
    \A s \in Ids : EchoPayloads(outbox[s]) = sent[s]

\* a step only appends to a transport
C10_AppendOnly ==
    \A s \in Ids :
        /\ Len(outbox[s]) <= Len(outbox'[s])
        /\ SubSeq(outbox'[s], 1, Len(outbox[s])) = outbox[s]

\* C10: frames reach a socket in the order of the emit calls: every step only
\* appends to a transport, and the `echo` frames a socket has received are,
\* in order and one per message, the payloads of the `message` frames it
\* sent.
C10_PerSocketFifo == []C10_EchoOrder /\ [][C10_AppendOnly]_vars

\* a socket sent m1 then m2 and holds echo m1 before echo m2
C10_Witness ==
    \E s \in Ids :
        /\ sent[s] = <<"m1", "m2">>
        /\ EchoPayloads(outbox[s]) = <<"m1", "m2">>

\* C11: a frame that is not valid structured data, lacks an `event` field or
\* names an event without a handler invokes no handler, writes no frame to
\* any socket and leaves the Registry and every room membership unchanged;
\* the receiving socket stays Open and registered, and a valid `message`
\* frame it sends next is processed (it gets its echo).
C11_DroppedFrameNoEffect ==
    [][ /\ last'.op = "dropped" =>
             /\ outbox' = outbox
             /\ clients' = clients
             /\ rooms' = rooms
             /\ socketRooms' = socketRooms
             /\ disconnects' = disconnects
             /\ sent' = sent /\ requested' = requested
             /\ liveVars' = liveVars
             /\ last'.sock \in clients'
             /\ transport'[last'.sock] = "open"
        /\ (last.op = "dropped" /\ last'.op = "message" /\ last'.sock = last.sock) =>
             NewFrames(last'.sock) = <<Envelope("echo", <<last'.arg>>)>>
      ]_vars

\* a socket that had already received frames sent an unknown event and is
\* still registered
C11_Witness ==
    /\ last.op = "dropped" /\ last.arg = "unknown"
    /\ last.sock \in clients
    /\ outbox[last.sock] # <<>>

\* C12: however a socket T's disconnect interleaves with emits, room
\* broadcasts, private messages and bridged external events that target T,
\* no frame is written to T's transport once T is Closed, and the sending
\* operation does not fail: a bridged event or broadcast completes, and a
\* private message naming the closed T gives its sender the `error` envelope.
C12_NoWriteAfterClose ==
    [][ /\ \A t \in Ids : transport'[t] = "closed" => outbox'[t] = outbox[t]
        /\ last'.op \in {"tiktok:event", "connect-ok", "message"} => last'.res = "ok"
        /\ (/\ last'.op = "private-message"
            /\ last'.pm.kind = "obj" /\ last'.pm.hasTarget
            /\ last'.pm.target \in Ids
            /\ transport[last'.pm.target] = "closed") =>
               /\ last'.res = "ok"
               /\ NewFrames(last'.sock) =
                      <<Envelope("error", NotFoundText(TargetText(last'.pm)))>>
      ]_vars

\* an external occurrence arrived for a username a closed socket is still
\* subscribed to
C12_Witness ==
    /\ last.op = "tiktok:event"
    /\ \E i \in DOMAIN listeners["tiktok:event"] :
           /\ listeners["tiktok:event"][i].user = last.arg
           /\ transport[listeners["tiktok:event"][i].sock] = "closed"

\* rooms whose join by s has completed and which s has not left since: the
\* handler's only leave is of general, at the start of every join-room
JoinedAndKept(s) ==
    IF requested[s] = <<>> THEN {DefaultRoom}
    ELSE {requested[s][i] : i \in {j \in DOMAIN requested[s] :
              requested[s][j] # DefaultRoom \/ j = Len(requested[s])}}

\* C13: under every interleaving of connect, join, leave, broadcast, stats
\* and disconnect across the connections the hub neither crashes nor locks
\* up (none of these operations throws, and stats can still be served), and
\* a stats() snapshot lists every room R that a still-connected socket
\* joined before the snapshot and has not left since.
C13_JoinedRoomsInSnapshot ==
    /\ last.op \in {"open", "close", "reclose", "error", "join-room",
                    "message", "stats", "broadcastAll"} => last.res # "threw"
    /\ nops < MaxOps => ENABLED GetStats
    /\ last.op = "stats" =>
           \A s \in Connected : JoinedAndKept(s) \subseteq Listed(last.stats)

\* a snapshot taken while one socket sits in r1 and another in general
C13_Witness ==
    /\ last.op = "stats"
    /\ \E s, t \in Connected :
           /\ s # t
           /\ requested[s] = <<"r1">>
           /\ requested[t] = <<>>
    /\ Listed(last.stats) = {"r1", DefaultRoom}

\* C14 (as stated): a registered socket is in exactly one room: general
\* until its first `join-room`, and after any sequence of `join-room`
\* requests the most recently requested room and no other.
C14_ExactlyOneRoom ==
    \A s \in clients :
        socketRooms[s] = {IF requested[s] = <<>> THEN DefaultRoom
                          ELSE Last(requested[s])}

\* C14 (amended): a registered socket is in general alone until its first
\* `join-room`; afterwards it is in every room other than general that it
\* has requested so far (the handler leaves only general), and in general
\* exactly when its most recent request named general.
C14_RoomsAmended ==
    \A s \in clients :
        /\ requested[s] = <<>> => socketRooms[s] = {DefaultRoom}
        /\ requested[s] # <<>> =>
               /\ Last(requested[s]) \in socketRooms[s]
               /\ socketRooms[s] \ {DefaultRoom} = Range(requested[s]) \ {DefaultRoom}
               /\ DefaultRoom \in socketRooms[s] <=> Last(requested[s]) = DefaultRoom

\* a socket asked for r1 and then for general and is now in both
C14_Witness ==
    \E s \in clients :
        /\ requested[s] = <<"r1", DefaultRoom>>
        /\ socketRooms[s] = {"r1", DefaultRoom}

\* C15 (as stated): a connected client in the default room that sends
\* `message` with payload m receives a `broadcast` envelope whose payload
\* contains m.  The handler is synchronous, so the frame would have to be
\* written by the very step that handles the message.
C15_SenderReceivesBroadcast ==
    [][ (last'.op = "message" /\ last'.sock \in rooms[DefaultRoom]) =>
            \E i \in DOMAIN NewFrames(last'.sock) :
                /\ NewFrames(last'.sock)[i].event = "broadcast"
                /\ last'.arg \in Range(NewFrames(last'.sock)[i].data)
      ]_vars

\* external connections for u that were constructed and have not failed
LiveConns(u) ==
    {c \in ConnIds : conns[c].user = u /\ conns[c].state \in {"connecting", "connected"}}

\* C16 (as stated): for every username u and every interleaving of
\* `live:tiktok` requests, also ones that arrive while an earlier connect for
\* u is still awaited, at most one external connection for u is created and
\* connected; later requests reuse the stored one.
C16_OneConnectionPerUser ==
    \A u \in Users : Cardinality(LiveConns(u)) <= 1

\* the subscriptions on the shared emitter that forward to socket s
ListenersOf(s) ==
    {<<e, i>> \in EmitterEvents \X (1..(3 * MaxLiveOps)) :
         i \in DOMAIN listeners[e] /\ listeners[e][i].sock = s}

\* C17 (as stated): once a socket is Closed no emitter listener that
\* forwards to it remains registered.
C17_ListenersRemovedOnClose ==
    \A s \in Ids : transport[s] = "closed" => ListenersOf(s) = {}

\* `tiktok:event` frames among the frames a step wrote to s
EventFramesTo(s) ==
    {i \in DOMAIN NewFrames(s) : NewFrames(s)[i].event = "tiktok:event"}

\* C18 (as stated): however often a socket sends `live:tiktok` for u, one
\* external occurrence for u reaches that socket as at most one
\* `tiktok:event` frame.
C18_OneFramePerOccurrence ==
    [][ last'.op = "tiktok:event" =>
            \A s \in Ids : Cardinality(EventFramesTo(s)) <= 1 ]_vars

\* C19 (as stated): when the request of socket S for u causes the external
\* connection to be established, S is sent a `tiktok:connected` envelope for
\* u, and afterwards every external occurrence for u is sent to S as
\* `tiktok:event`.
C19_RequesterGetsConnected ==
    [][ /\ (last'.op = "connect-ok" /\ transport[last'.sock] = "open") =>
               \E i \in DOMAIN NewFrames(last'.sock) :
                   NewFrames(last'.sock)[i] = ConnectedFrame(last'.arg)
        /\ last'.op = "tiktok:event" =>
               \A c \in ConnIds :
                   (/\ conns[c].state = "connected"
                    /\ conns[c].user = last'.arg
                    /\ transport[conns[c].sock] = "open") =>
                       EventFramesTo(conns[c].sock) # {}
      ]_vars

\* C20: a socket is sent a `tiktok:connected`, `tiktok:event` or
\* `tiktok:disconnected` frame carrying username u only if that socket
\* itself sent `live:tiktok` for u before; what other sockets asked for is
\* never forwarded to it.
C20_UsernameIsolation ==
    \A s \in Ids : \A i \in DOMAIN outbox[s] :
        outbox[s][i].event \in EmitterEvents =>
            outbox[s][i].data[1] \in liveAsked[s]

\* s subscribed for u1 and t for u2, both Open; an occurrence for u1 came
\* and s was sent it
C20_Witness ==
    /\ last.op = "tiktok:event" /\ last.arg = "u1"
    /\ \E s, t \in Connected :
           /\ s # t
           /\ liveAsked[s] = {"u1"} /\ liveAsked[t] = {"u2"}
           /\ \E i \in DOMAIN listeners["tiktok:event"] :
                  listeners["tiktok:event"][i] = [sock |-> t, user |-> "u2"]
           /\ outbox[s] # <<>>
           /\ Last(outbox[s]).event = "tiktok:event"
           /\ Last(outbox[s]).data[1] = "u1"

\* the emitter ran every listener subscribed to name for u: each Open
\* subscriber was written the frame by this step
Emitted(name, u, frame) ==
    \A i \in DOMAIN listeners[name] :
        (listeners[name][i].user = u /\ transport[listeners[name][i].sock] = "open") =>
            Count(NewFrames(listeners[name][i].sock), frame) >= 1

\* C21 (as stated): when establishing the external connection for u fails,
\* createLiveIfNotExist(u) rejects, `tiktok:disconnected` for u is emitted,
\* and the map is left unchanged with no entry for u, so that a later
\* `live:tiktok` for u attempts a fresh connection; disconnectLive(u)
\* removes the entry and emits `tiktok:disconnected` when an entry exists and
\* changes nothing otherwise.
C21_FailureLeavesNoEntry ==
    [][ /\ last'.op = "connect-fail" =>
               /\ last'.res = "rejected"
               /\ Emitted("tiktok:disconnected", last'.arg, DisconnectedFrame(last'.arg))
               /\ liveMap' = liveMap
               /\ liveMap'[last'.arg] = 0
        /\ (last'.op = "live:tiktok" /\ liveMap[last'.arg] = 0) =>
               /\ last'.res = "pending"
               /\ conns'[nextConn] = [user |-> last'.arg, sock |-> last'.sock,
                                      state |-> "connecting"]
        /\ last'.op = "disconnectLive" =>
               IF liveMap[last'.arg] # 0
               THEN /\ liveMap' = [liveMap EXCEPT ![last'.arg] = 0]
                    /\ Emitted("tiktok:disconnected", last'.arg, LeftFrame(last'.arg))
               ELSE UNCHANGED <<liveMap, conns, outbox, listeners>>
      ]_vars
====
